---- MODULE Spec2Model ----
(***************************************************************************)
(* Model of backend/src/services/solana.js (class SolanaService): the      *)
(* in-memory provenance ledger (productHistory, allTransactions), the      *)
(* three async mutations createProduct / transferOwnership / recordRepair  *)
(* and the signature mint generateTransactionSignature with its two        *)
(* awaits on the external ledger.                                          *)
(*                                                                         *)
(* Every async call is a process.  A call runs synchronously up to its     *)
(* first await, is suspended while the external ledger holds its request,  *)
(* and runs synchronously again from the await to the next one (or to its  *)
(* return).  Each such synchronous stretch is one action.                  *)
(***************************************************************************)
EXTENDS Integers, Sequences, FiniteSets, TLC

(* ------------------------------- bounds -------------------------------- *)
\* number of calls of the three mutations that are ever invoked
MaxCalls == 3
\* largest value Date.now() returns (the clock starts at 1)
MaxTime == 2

(* ------------------------------- inputs -------------------------------- *)
Products == {"BIKE-001", "BIKE-002"}
Owners == {"A", "B"}
\* the value of a metadata argument that was not passed
Undefined == "undefined"
MetadataInputs == {Undefined}
\* what connection.sendRawTransaction resolves to
AnchorSignatures == {"anchored"}
\* what encodeBase58(crypto.randomBytes(64)) yields
LocalSignatures == {"local"}

\* largest limit passed to getRecentTransactions
MaxLimit == 3

\* largest length of a buffer passed to encodeBase58
MaxBytes == 3

CallIds == 1..MaxCalls
NoArg == "-"
NoArray == 0

\* the messages of the three errors the mutations throw
DuplicateProduct == "Product ID already exists"
UnknownProduct == "Product ID does not exist"
OwnershipMismatch == "Ownership verification failed"
Ok == "ok"

VARIABLES
    productHistory,   \* this.productHistory: productId -> reference of an array
    arrays,           \* the heap of history arrays: reference -> sequence of events
    allTransactions,  \* this.allTransactions
    calls,            \* the invocations of the three mutations
    now               \* the last value Date.now() returned

vars == <<productHistory, arrays, allTransactions, calls, now>>

IdleCall ==
    [pc |-> "idle", op |-> NoArg, productId |-> NoArg, owner |-> NoArg,
     nextOwner |-> NoArg, metadata |-> NoArg, history |-> NoArray,
     signature |-> NoArg, anchor |-> NoArg, result |-> NoArg,
     args |-> <<>>, response |-> <<>>]

Init ==
    /\ productHistory = <<>>
    /\ arrays = <<>>
    /\ allTransactions = <<>>
    /\ calls = [c \in CallIds |-> IdleCall]
    /\ now = 1

(* ------------------------------ helpers -------------------------------- *)
Has(productId) == productId \in DOMAIN productHistory

\* this.productHistory.get(productId), dereferenced
Chain(productId) == arrays[productHistory[productId]]

Last(s) == s[Len(s)]

\* Map.prototype.set
MapSet(m, k, v) == [x \in DOMAIN m \cup {k} |-> IF x = k THEN v ELSE m[x]]

\* calls are numbered in the order of their invocation
NextCallId == 1 + Cardinality({c \in CallIds : calls[c].pc # "idle"})

\* metadata || ''
MetadataOrEmpty(metadata) == IF metadata = Undefined THEN "" ELSE metadata

(* ------------------- generateTransactionSignature ---------------------- *)
\* a settled call: its locals are gone, its promise holds the outcome
Settled(call, result) ==
    [IdleCall EXCEPT !.pc = "done", !.op = call.op, !.productId = call.productId,
                     !.owner = call.owner, !.result = result]

\* a call that threw: its promise is rejected with the error
Throw(call, error) == Settled(call, error)

\* a call that returned: its promise is fulfilled
Return(call) == Settled(call, Ok)

\* the call is suspended at `await this.connection.getLatestBlockhash()`
MintStart(call) == [call EXCEPT !.pc = "getLatestBlockhash"]

\* transaction.sign succeeded; the call is suspended at
\* `await this.connection.sendRawTransaction(...)`
MintSend(call) == [call EXCEPT !.pc = "sendRawTransaction"]

\* `return signature` of the try block
MintReturn(call, signature) ==
    [call EXCEPT !.pc = "minted", !.signature = signature, !.anchor = "transaction_created"]

\* the catch block with the error thrown again instead of absorbed
MintCatch_rethrow(call, error, base58Signature) == Throw(call, error)

\* the catch block: log, derive a signature locally, return it
MintCatch(call, error, base58Signature) ==
    [call EXCEPT !.pc = "minted", !.signature = base58Signature, !.anchor = error]

\* the external ledger answers getLatestBlockhash; signing follows in the same
\* synchronous stretch and either throws or leads to the second request
GetLatestBlockhashResolves(c) ==
    /\ calls[c].pc = "getLatestBlockhash"
    /\ \/ calls' = [calls EXCEPT ![c] = MintSend(@)]
       \/ \E sig \in LocalSignatures :
            calls' = [calls EXCEPT ![c] = MintCatch(@, "sign failed", sig)]
    /\ UNCHANGED <<productHistory, arrays, allTransactions, now>>

\* the external ledger fails getLatestBlockhash (unreachable, error reply)
GetLatestBlockhashRejects(c) ==
    /\ calls[c].pc = "getLatestBlockhash"
    /\ \E sig \in LocalSignatures :
         calls' = [calls EXCEPT ![c] = MintCatch(@, "getLatestBlockhash failed", sig)]
    /\ UNCHANGED <<productHistory, arrays, allTransactions, now>>

\* the external ledger accepts the transaction and answers its signature
SendRawTransactionResolves(c) ==
    /\ calls[c].pc = "sendRawTransaction"
    /\ \E sig \in AnchorSignatures :
         calls' = [calls EXCEPT ![c] = MintReturn(@, sig)]
    /\ UNCHANGED <<productHistory, arrays, allTransactions, now>>

\* the external ledger rejects the transaction, or the request fails
SendRawTransactionRejects(c) ==
    /\ calls[c].pc = "sendRawTransaction"
    /\ \E sig \in LocalSignatures :
         calls' = [calls EXCEPT ![c] = MintCatch(@, "sendRawTransaction failed", sig)]
    /\ UNCHANGED <<productHistory, arrays, allTransactions, now>>

(* ---------------------------- createProduct ---------------------------- *)
\* lines 107-122: the existence check, then the mint is awaited
createProductEnter(productId, metadata, manufacturerPublicKey) ==
    LET call == [IdleCall EXCEPT !.op = "createProduct", !.productId = productId,
                                 !.metadata = metadata, !.owner = manufacturerPublicKey]
    IN  IF Has(productId) THEN Throw(call, DuplicateProduct) ELSE MintStart(call)

\* the record built from the promise of the mint, the await left out
ManufactureRecord_notAwaited(c, timestamp) ==
    [id |-> c, type |-> "Manufacture", timestamp |-> timestamp,
     owner |-> calls[c].owner, metadata |-> MetadataOrEmpty(calls[c].metadata),
     productId |-> calls[c].productId, signature |-> "[object Promise]"]

\* lines 125-132: the transaction record
ManufactureRecord(c, timestamp) ==
    [id |-> c, type |-> "Manufacture", timestamp |-> timestamp,
     owner |-> calls[c].owner, metadata |-> MetadataOrEmpty(calls[c].metadata),
     productId |-> calls[c].productId, signature |-> calls[c].signature]

CreateProduct(c) ==
    /\ c = NextCallId
    /\ \E productId \in Products, metadata \in MetadataInputs, pk \in Owners :
         calls' = [calls EXCEPT ![c] = createProductEnter(productId, metadata, pk)]
    /\ UNCHANGED <<productHistory, arrays, allTransactions, now>>

\* lines 124-143: the continuation after the awaited mint
CreateProductResume(c) ==
    /\ calls[c].pc = "minted"
    /\ calls[c].op = "createProduct"
    /\ \E timestamp \in now..MaxTime :
         LET transaction == ManufactureRecord(c, timestamp) IN
         /\ now' = timestamp
         /\ arrays' = MapSet(arrays, c, <<transaction>>)
         /\ productHistory' = MapSet(productHistory, calls[c].productId, c)
         /\ allTransactions' = Append(allTransactions, transaction)
    /\ calls' = [calls EXCEPT ![c] = Return(@)]

(* -------------------------- transferOwnership -------------------------- *)
\* the ownership check made against the first record of the chain
transferOwnershipEnter_firstRecord(productId, currentOwner, nextOwner) ==
    LET call == [IdleCall EXCEPT !.op = "transferOwnership", !.productId = productId,
                                 !.owner = currentOwner, !.nextOwner = nextOwner]
    IN  IF ~Has(productId) THEN Throw(call, UnknownProduct)
        ELSE IF Chain(productId)[1].owner # currentOwner
             THEN Throw(call, OwnershipMismatch)
             ELSE MintStart([call EXCEPT !.history = productHistory[productId]])

\* lines 146-170: existence and ownership checks, then the mint is awaited;
\* `history` keeps the reference of the array read at line 160
transferOwnershipEnter(productId, currentOwner, nextOwner) ==
    LET call == [IdleCall EXCEPT !.op = "transferOwnership", !.productId = productId,
                                 !.owner = currentOwner, !.nextOwner = nextOwner]
    IN  IF ~Has(productId) THEN Throw(call, UnknownProduct)
        ELSE IF Last(Chain(productId)).owner # currentOwner
             THEN Throw(call, OwnershipMismatch)
             ELSE MintStart([call EXCEPT !.history = productHistory[productId]])

\* lines 173-180
TransferRecord(c, timestamp) ==
    [id |-> c, type |-> "Transfer", timestamp |-> timestamp,
     owner |-> calls[c].nextOwner, previousOwner |-> calls[c].owner,
     productId |-> calls[c].productId, signature |-> calls[c].signature]

TransferOwnership(c) ==
    /\ c = NextCallId
    /\ \E productId \in Products, currentOwner \in Owners, nextOwner \in Owners :
         calls' = [calls EXCEPT ![c] =
                      transferOwnershipEnter(productId, currentOwner, nextOwner)]
    /\ UNCHANGED <<productHistory, arrays, allTransactions, now>>

\* history.unshift(transaction) in place of history.push(transaction)
PushAndSet_unshift(c, transaction) ==
    /\ arrays' = [arrays EXCEPT ![calls[c].history] = <<transaction>> \o @]
    /\ productHistory' = MapSet(productHistory, calls[c].productId, calls[c].history)
    /\ allTransactions' = Append(allTransactions, transaction)

\* this.allTransactions.unshift(transaction) in place of push
PushAndSet_logUnshift(c, transaction) ==
    /\ arrays' = [arrays EXCEPT ![calls[c].history] = Append(@, transaction)]
    /\ productHistory' = MapSet(productHistory, calls[c].productId, calls[c].history)
    /\ allTransactions' = <<transaction>> \o allTransactions

\* history.push(transaction); this.productHistory.set(productId, history);
\* this.allTransactions.push(transaction)
PushAndSet(c, transaction) ==
    /\ arrays' = [arrays EXCEPT ![calls[c].history] = Append(@, transaction)]
    /\ productHistory' = MapSet(productHistory, calls[c].productId, calls[c].history)
    /\ allTransactions' = Append(allTransactions, transaction)

\* the continuation waiting until the chain tail is owned by currentOwner again
TransferOwnershipResume_waitsForOwner(c) ==
    /\ calls[c].pc = "minted"
    /\ calls[c].op = "transferOwnership"
    /\ Last(arrays[calls[c].history]).owner = calls[c].owner
    /\ \E timestamp \in now..MaxTime :
         /\ now' = timestamp
         /\ PushAndSet(c, TransferRecord(c, timestamp))
    /\ calls' = [calls EXCEPT ![c] = Return(@)]

\* lines 172-191: the continuation after the awaited mint
TransferOwnershipResume(c) ==
    /\ calls[c].pc = "minted"
    /\ calls[c].op = "transferOwnership"
    /\ \E timestamp \in now..MaxTime :
         /\ now' = timestamp
         /\ PushAndSet(c, TransferRecord(c, timestamp))
    /\ calls' = [calls EXCEPT ![c] = Return(@)]

(* ----------------------------- recordRepair ---------------------------- *)
\* lines 194-217
recordRepairEnter(productId, owner, metadata) ==
    LET call == [IdleCall EXCEPT !.op = "recordRepair", !.productId = productId,
                                 !.owner = owner, !.metadata = metadata]
    IN  IF ~Has(productId) THEN Throw(call, UnknownProduct)
        ELSE IF Last(Chain(productId)).owner # owner
             THEN Throw(call, OwnershipMismatch)
             ELSE MintStart([call EXCEPT !.history = productHistory[productId]])

\* lines 220-227
RepairRecord(c, timestamp) ==
    [id |-> c, type |-> "Repair", timestamp |-> timestamp,
     owner |-> calls[c].owner, metadata |-> calls[c].metadata,
     productId |-> calls[c].productId, signature |-> calls[c].signature]

RecordRepair(c) ==
    /\ c = NextCallId
    /\ \E productId \in Products, owner \in Owners, metadata \in MetadataInputs :
         calls' = [calls EXCEPT ![c] = recordRepairEnter(productId, owner, metadata)]
    /\ UNCHANGED <<productHistory, arrays, allTransactions, now>>

\* lines 219-238: the continuation after the awaited mint
RecordRepairResume(c) ==
    /\ calls[c].pc = "minted"
    /\ calls[c].op = "recordRepair"
    /\ \E timestamp \in now..MaxTime :
         /\ now' = timestamp
         /\ PushAndSet(c, RepairRecord(c, timestamp))
    /\ calls' = [calls EXCEPT ![c] = Return(@)]

(* ------------------------------- queries ------------------------------- *)
\* JavaScript values of the query arguments
JsUndefined == [t |-> "undefined", n |-> 0, s |-> ""]
JsNumber(n) == [t |-> "number", n |-> n, s |-> ""]
JsString(s) == [t |-> "string", n |-> 0, s |-> s]
JsNaN == [t |-> "NaN", n |-> 0, s |-> ""]

\* the truthiness tested by `if (filters.owner)` and the like
Truthy(x) ==
    CASE x.t = "number" -> x.n # 0
      [] x.t = "string" -> x.s # ""
      [] OTHER -> FALSE

\* the characters of the strings that occur as owners and as filter values
StringChars ==
    [str \in {"", "A", "B", "a", "b", "ab"} |->
        CASE str = "" -> <<>>
          [] str = "A" -> <<"A">>
          [] str = "B" -> <<"B">>
          [] str = "a" -> <<"a">>
          [] str = "b" -> <<"b">>
          [] str = "ab" -> <<"a", "b">>]

LowerChar(ch) == CASE ch = "A" -> "a" [] ch = "B" -> "b" [] OTHER -> ch

\* String.prototype.toLowerCase, on the characters
ToLowerCase(str) == [i \in DOMAIN StringChars[str] |-> LowerChar(StringChars[str][i])]

\* String.prototype.includes, on the characters
Includes(chars, sub) ==
    \E k \in 0..(Len(chars) - Len(sub)) :
        \A i \in 1..Len(sub) : chars[k + i] = sub[i]

\* parseInt of the time bounds that are passed: a number, or a string of digits
ParseInt(x) ==
    CASE x.t = "number" -> JsNumber(x.n)
      [] x.t = "string" /\ x.s = "0" -> JsNumber(0)
      [] x.t = "string" /\ x.s = "1" -> JsNumber(1)
      [] x.t = "string" /\ x.s = "2" -> JsNumber(2)
      [] OTHER -> JsNaN

\* timestamp >= bound and timestamp <= bound; a comparison with NaN is false
GreaterOrEqual(timestamp, bound) == bound.t = "number" /\ timestamp >= bound.n
LessOrEqual(timestamp, bound) == bound.t = "number" /\ timestamp <= bound.n

\* Array.prototype.slice(start): a copy of the elements from start on
Slice(arr, start) ==
    LET len == Len(arr)
        k == IF start < 0 THEN (IF len + start > 0 THEN len + start ELSE 0)
             ELSE (IF start < len THEN start ELSE len)
    IN  SubSeq(arr, k + 1, len)

\* Array.prototype.reverse
Reverse(arr) == [i \in 1..Len(arr) |-> arr[Len(arr) + 1 - i]]

\* `limit = 10`: the default of a parameter that is not passed
DefaultLimit == 10
LimitOrDefault(args) == IF args = <<>> THEN DefaultLimit ELSE args[1]

\* the returned array without the reversal
getRecentTransactions_noReverse(limit) == Slice(allTransactions, -limit)

\* line 263: this.allTransactions.slice(-limit).reverse()
getRecentTransactions(limit) == Reverse(Slice(allTransactions, -limit))

\* the comparator with its operands exchanged: oldest first
CompareTimestamps_ascending(a, b) == a.timestamp - b.timestamp

\* line 298: (a, b) => b.timestamp - a.timestamp
CompareTimestamps(a, b) == b.timestamp - a.timestamp

\* Array.prototype.sort is stable: an element goes behind the elements that do
\* not compare greater than it
RECURSIVE SortInsert(_, _)
SortInsert(sorted, x) ==
    IF sorted = <<>> THEN <<x>>
    ELSE IF CompareTimestamps(sorted[1], x) > 0
         THEN <<x>> \o sorted
         ELSE <<sorted[1]>> \o SortInsert(Tail(sorted), x)

RECURSIVE Sort(_)
Sort(arr) ==
    IF arr = <<>> THEN <<>>
    ELSE SortInsert(Sort(SubSeq(arr, 1, Len(arr) - 1)), arr[Len(arr)])

\* lines 275-279; SelectSeq is Array.prototype.filter
FilterByOwner(transactions, filters) ==
    IF Truthy(filters.owner)
    THEN LET Test(tx) == Includes(ToLowerCase(tx.owner), ToLowerCase(filters.owner.s))
         IN  SelectSeq(transactions, Test)
    ELSE transactions

\* lines 282-286
FilterByPreviousOwner(transactions, filters) ==
    IF Truthy(filters.previousOwner)
    THEN LET Test(tx) ==
                 /\ "previousOwner" \in DOMAIN tx
                 /\ Includes(ToLowerCase(tx.previousOwner),
                             ToLowerCase(filters.previousOwner.s))
         IN  SelectSeq(transactions, Test)
    ELSE transactions

\* lines 289-291
FilterByStartTime(transactions, filters) ==
    IF Truthy(filters.startTime)
    THEN LET Test(tx) == GreaterOrEqual(tx.timestamp, ParseInt(filters.startTime))
         IN  SelectSeq(transactions, Test)
    ELSE transactions

\* lines 293-295
FilterByEndTime(transactions, filters) ==
    IF Truthy(filters.endTime)
    THEN LET Test(tx) == LessOrEqual(tx.timestamp, ParseInt(filters.endTime))
         IN  SelectSeq(transactions, Test)
    ELSE transactions

\* lines 272-300: the array that getAllTransactions returns
getAllTransactions(filters) ==
    LET copy == allTransactions
    IN  Sort(FilterByEndTime(FilterByStartTime(
            FilterByPreviousOwner(FilterByOwner(copy, filters), filters), filters), filters))

\* the argument lists of getRecentTransactions: none, or a limit
LimitInputs == {<<>>} \cup {<<n>> : n \in 0..MaxLimit}

NoFilters ==
    [owner |-> JsUndefined, previousOwner |-> JsUndefined,
     startTime |-> JsUndefined, endTime |-> JsUndefined]

\* the filter objects passed to getAllTransactions
FilterInputs ==
    {NoFilters,
     [NoFilters EXCEPT !.owner = JsString("a")],
     [NoFilters EXCEPT !.owner = JsString("B")],
     [NoFilters EXCEPT !.owner = JsString("ab")],
     [NoFilters EXCEPT !.owner = JsString("")],
     [NoFilters EXCEPT !.previousOwner = JsString("a")],
     [NoFilters EXCEPT !.previousOwner = JsString("")],
     [NoFilters EXCEPT !.startTime = JsNumber(2)],
     [NoFilters EXCEPT !.startTime = JsNumber(0)],
     [NoFilters EXCEPT !.endTime = JsNumber(1)],
     [NoFilters EXCEPT !.endTime = JsString("1")],
     [NoFilters EXCEPT !.endTime = JsNumber(0)],
     [NoFilters EXCEPT !.endTime = JsString("")],
     [NoFilters EXCEPT !.owner = JsString("b"), !.startTime = JsString("2")],
     [NoFilters EXCEPT !.owner = JsString("b"), !.previousOwner = JsString("A"),
                       !.startTime = JsNumber(1), !.endTime = JsNumber(2)]}

\* a query call settles in the stretch that invokes it: it awaits nothing; its
\* promise holds the array it returned
QuerySettled(op, args, result, response) ==
    [IdleCall EXCEPT !.pc = "done", !.op = op, !.args = args, !.result = result,
                     !.response = response]

\* an unknown product given an empty chain instead of the error
GetProductHistory_createsChain(c) ==
    /\ c = NextCallId
    /\ \E productId \in Products :
         IF Has(productId)
         THEN /\ calls' = [calls EXCEPT ![c] =
                              QuerySettled("getProductHistory", <<productId>>, Ok,
                                           Chain(productId))]
              /\ UNCHANGED <<productHistory, arrays>>
         ELSE /\ calls' = [calls EXCEPT ![c] =
                              QuerySettled("getProductHistory", <<productId>>,
                                           UnknownProduct, <<>>)]
              /\ arrays' = MapSet(arrays, c, <<>>)
              /\ productHistory' = MapSet(productHistory, productId, c)
    /\ UNCHANGED <<allTransactions, now>>

\* lines 241-254: returns the array of the product itself
GetProductHistory(c) ==
    /\ c = NextCallId
    /\ \E productId \in Products :
         calls' = [calls EXCEPT ![c] =
                      IF Has(productId)
                      THEN QuerySettled("getProductHistory", <<productId>>, Ok,
                                        Chain(productId))
                      ELSE QuerySettled("getProductHistory", <<productId>>,
                                        UnknownProduct, <<>>)]
    /\ UNCHANGED <<productHistory, arrays, allTransactions, now>>

\* reverse() called on this.allTransactions itself, without the copy of slice
GetRecentTransactions_inPlace(c) ==
    /\ c = NextCallId
    /\ \E args \in LimitInputs :
         /\ allTransactions' = Reverse(allTransactions)
         /\ calls' = [calls EXCEPT ![c] =
                         QuerySettled("getRecentTransactions", args, Ok,
                                      Slice(allTransactions', -LimitOrDefault(args)))]
    /\ UNCHANGED <<productHistory, arrays, now>>

\* lines 256-264: slice copies, reverse works on the copy
GetRecentTransactions(c) ==
    /\ c = NextCallId
    /\ \E args \in LimitInputs :
         /\ allTransactions' = allTransactions
         /\ calls' = [calls EXCEPT ![c] =
                         QuerySettled("getRecentTransactions", args, Ok,
                                      getRecentTransactions(LimitOrDefault(args)))]
    /\ UNCHANGED <<productHistory, arrays, now>>

\* lines 266-301: the spread copies, filter makes new arrays, sort works on them
GetAllTransactions(c) ==
    /\ c = NextCallId
    /\ \E filters \in FilterInputs :
         /\ allTransactions' = allTransactions
         /\ calls' = [calls EXCEPT ![c] =
                         QuerySettled("getAllTransactions", <<filters>>, Ok,
                                      getAllTransactions(filters))]
    /\ UNCHANGED <<productHistory, arrays, now>>

(* ----------------------------- encodeBase58 ---------------------------- *)
\* line 87: the alphabet, one character per digit value 0..57
ALPHABET ==
    <<"1", "2", "3", "4", "5", "6", "7", "8", "9",
      "A", "B", "C", "D", "E", "F", "G", "H", "J", "K", "L", "M", "N", "P", "Q",
      "R", "S", "T", "U", "V", "W", "X", "Y", "Z",
      "a", "b", "c", "d", "e", "f", "g", "h", "i", "j", "k", "m", "n", "o", "p",
      "q", "r", "s", "t", "u", "v", "w", "x", "y", "z">>

\* line 88
base == 58

\* the byte values the buffers are made of
ByteInputs == {0, 1, 58, 255}

RECURSIVE BuffersOfLength(_)
BuffersOfLength(n) ==
    IF n = 0 THEN {<<>>}
    ELSE {Append(b, x) : b \in BuffersOfLength(n - 1), x \in ByteInputs}

\* the buffers passed to encodeBase58
Buffers == UNION {BuffersOfLength(n) : n \in 0..MaxBytes}

\* bytes.toString('hex'): two hexadecimal digits per byte
RECURSIVE ToHex(_)
ToHex(bytes) ==
    IF bytes = <<>> THEN <<>>
    ELSE <<bytes[1] \div 16, bytes[1] % 16>> \o ToHex(Tail(bytes))

RECURSIVE HexValue(_)
HexValue(digits) ==
    IF digits = <<>> THEN 0
    ELSE 16 * HexValue(SubSeq(digits, 1, Len(digits) - 1)) + digits[Len(digits)]

\* BigInt('0x' + hex): a SyntaxError when no digit follows the prefix
SyntaxError == "SyntaxError"
BigIntOfHex(digits) ==
    IF digits = <<>> THEN [error |-> SyntaxError, value |-> 0]
    ELSE [error |-> Ok, value |-> HexValue(digits)]

\* lines 93-97: the loop that prepends one alphabet character per remainder
RECURSIVE EncodeDigits(_, _)
EncodeDigits(num, encoded) ==
    IF num > 0
    THEN EncodeDigits(num \div base, <<ALPHABET[(num % base) + 1]>> \o encoded)
    ELSE encoded

\* lines 100-102: one '1' is prepended per leading zero byte; i counts from 1
RECURSIVE EncodeLeadingZeros(_, _, _)
EncodeLeadingZeros(bytes, i, encoded) ==
    IF i <= Len(bytes) /\ bytes[i] = 0
    THEN EncodeLeadingZeros(bytes, i + 1, <<"1">> \o encoded)
    ELSE encoded

\* lines 86-105: the string returned, or the error thrown at line 90
encodeBase58(bytes) ==
    LET num == BigIntOfHex(ToHex(bytes))
    IN  IF num.error # Ok THEN [error |-> num.error, encoded |-> <<>>]
        ELSE [error |-> Ok,
              encoded |-> EncodeLeadingZeros(bytes, 1, EncodeDigits(num.value, <<>>))]

\* a call of the method encodeBase58: it is synchronous
EncodeBase58(c) ==
    /\ c = NextCallId
    /\ \E bytes \in Buffers :
         calls' = [calls EXCEPT ![c] =
                      [IdleCall EXCEPT !.pc = "done", !.op = "encodeBase58",
                                       !.args = <<bytes>>,
                                       !.result = encodeBase58(bytes).error,
                                       !.response = encodeBase58(bytes).encoded]]
    /\ UNCHANGED <<productHistory, arrays, allTransactions, now>>

(* ---------------------------- specification ---------------------------- *)
Next ==
    \E c \in CallIds :
        \/ CreateProduct(c)
        \/ TransferOwnership(c)
        \/ RecordRepair(c)
        \/ GetLatestBlockhashResolves(c)
        \/ GetLatestBlockhashRejects(c)
        \/ SendRawTransactionResolves(c)
        \/ SendRawTransactionRejects(c)
        \/ CreateProductResume(c)
        \/ TransferOwnershipResume(c)
        \/ RecordRepairResume(c)

Spec == Init /\ [][Next]_vars

\* the event loop runs every continuation that is ready; nothing obliges the
\* external ledger to answer a request
FairSpec ==
    /\ Spec
    /\ \A c \in CallIds :
         /\ WF_vars(CreateProductResume(c))
         /\ WF_vars(TransferOwnershipResume(c))
         /\ WF_vars(RecordRepairResume(c))

\* the mutations together with the three queries
QueryNext ==
    \/ Next
    \/ \E c \in CallIds :
          \/ GetProductHistory(c)
          \/ GetRecentTransactions(c)
          \/ GetAllTransactions(c)

QuerySpec == Init /\ [][QueryNext]_vars

\* calls of encodeBase58 alone
Base58Next == \E c \in CallIds : EncodeBase58(c)

Base58Spec == Init /\ [][Base58Next]_vars

(* ------------------------------ properties ----------------------------- *)
Range(s) == {s[i] : i \in DOMAIN s}

IsPrefix(s, t) == Len(s) <= Len(t) /\ \A i \in DOMAIN s : s[i] = t[i]

\* the call passed its checks and has not appended yet
InFlight(c) == calls[c].pc \in {"getLatestBlockhash", "sendRawTransaction", "minted"}

AwaitingLedger(c) == calls[c].pc \in {"getLatestBlockhash", "sendRawTransaction"}

Errors == {DuplicateProduct, UnknownProduct, OwnershipMismatch}

CustodyHolds(chain) ==
    \A i \in 1..(Len(chain) - 1) :
        /\ chain[i + 1].type = "Transfer" => chain[i + 1].previousOwner = chain[i].owner
        /\ chain[i + 1].type = "Repair" => chain[i + 1].owner = chain[i].owner

\* C1: in every reachable state every pair of adjacent events of every product
\* chain satisfies owner continuity: a Transfer's previousOwner and a Repair's
\* owner equal the owner of the event before it.
C1_ChainOfCustody == \A p \in DOMAIN productHistory : CustodyHolds(Chain(p))

\* C2: mutations on the same productId are never interleaved: no two calls on the
\* same product are at once between their validation of the chain tail and
\* their append.
C2_MutationsAtomicPerProduct ==
    \A c, d \in CallIds :
        (c # d /\ InFlight(c) /\ InFlight(d)) => calls[c].productId # calls[d].productId

\* C3: for every productId at most one createProduct call succeeds and at most
\* one Manufacture event of that productId is in the ledger.
C3_CreateOncePerProduct ==
    \A p \in Products :
        /\ Cardinality({c \in CallIds : /\ calls[c].pc = "done"
                                        /\ calls[c].op = "createProduct"
                                        /\ calls[c].productId = p
                                        /\ calls[c].result = Ok}) <= 1
        /\ Cardinality({i \in DOMAIN allTransactions :
                            /\ allTransactions[i].type = "Manufacture"
                            /\ allTransactions[i].productId = p}) <= 1

\* C4: the ledger is append-only: in every step the old GlobalLog is a prefix of
\* the new one, every existing product keeps a chain, and its old chain is a
\* prefix of its new chain.
C4_AppendOnly ==
    [][/\ IsPrefix(allTransactions, allTransactions')
       /\ \A p \in DOMAIN productHistory :
            /\ p \in DOMAIN productHistory'
            /\ IsPrefix(Chain(p), Chain(p)')]_vars

\* C5: no partial apply: in every reachable state an event is in the GlobalLog
\* exactly if it is in the chain of its product.
C5_NoPartialApply ==
    /\ \A e \in Range(allTransactions) :
         Has(e.productId) /\ e \in Range(Chain(e.productId))
    /\ \A p \in DOMAIN productHistory : Range(Chain(p)) \subseteq Range(allTransactions)

\* C6: a transferOwnership call on an existing product whose current owner is not
\* the currentOwner passed fails with OwnershipMismatch in the step that invokes
\* it, and that step changes neither a chain nor the GlobalLog.
C6_StaleTransferRejected ==
    [][\A c \in CallIds :
          (/\ calls[c].pc = "idle"
           /\ calls'[c].op = "transferOwnership"
           /\ Has(calls'[c].productId)
           /\ Last(Chain(calls'[c].productId)).owner # calls'[c].owner)
          => /\ calls'[c].pc = "done"
             /\ calls'[c].result = OwnershipMismatch
             /\ UNCHANGED <<productHistory, arrays, allTransactions>>]_vars

\* a transfer with a stale currentOwner was rejected, the chain is as it was
C6_Witness ==
    \E c \in CallIds :
        /\ calls[c].pc = "done"
        /\ calls[c].op = "transferOwnership"
        /\ calls[c].result = OwnershipMismatch
        /\ Has(calls[c].productId)
        /\ Len(Chain(calls[c].productId)) = 2

\* C7: the step in which a recordRepair call appends its Repair event leaves the
\* owner of the last event of the product's chain as it was.
C7_RepairKeepsOwner ==
    [][\A c \in CallIds :
          (/\ calls[c].pc = "minted"
           /\ calls[c].op = "recordRepair"
           /\ calls'[c].pc = "done")
          => Last(Chain(calls[c].productId))'.owner = Last(Chain(calls[c].productId)).owner]_vars

Manufactures(p) ==
    {i \in DOMAIN allTransactions :
        allTransactions[i].type = "Manufacture" /\ allTransactions[i].productId = p}

\* C8: in every reachable state every existing product chain is non-empty and its
\* first event has kind Manufacture and no previousOwner field.
C8_FirstIsManufacture ==
    \A p \in DOMAIN productHistory :
        /\ Len(Chain(p)) >= 1
        /\ Chain(p)[1].type = "Manufacture"
        /\ "previousOwner" \notin DOMAIN Chain(p)[1]

\* a product that was created twice and whose chain was appended to
C8_Witness ==
    \E p \in DOMAIN productHistory :
        Len(Chain(p)) >= 2 /\ Cardinality(Manufactures(p)) = 2

\* C9: the mint never fails to its caller: a call suspended in the mint leaves
\* it only towards the next request or with a signature, a failed step of the
\* anchor write yields a locally derived signature, the continuation of a
\* minted call returns successfully with that signature on its event, and a
\* call only ever settles with success or one of the three domain errors.
C9_MintNeverFails ==
    [][\A c \in CallIds :
          /\ (AwaitingLedger(c) /\ calls'[c] # calls[c])
             => /\ calls'[c].pc \in {"sendRawTransaction", "minted"}
                /\ (calls'[c].pc = "minted" /\ calls'[c].anchor # "transaction_created")
                   => calls'[c].signature \in LocalSignatures
          /\ (calls[c].pc = "minted" /\ calls'[c] # calls[c])
             => /\ calls'[c].pc = "done"
                /\ calls'[c].result = Ok
                /\ Last(allTransactions').signature = calls[c].signature
          /\ (calls[c].pc # "done" /\ calls'[c].pc = "done")
             => calls'[c].result \in {Ok} \cup Errors]_vars

\* every kind of mutation has returned successfully with a locally derived
\* signature on its event
C9_Witness ==
    \A t \in {"Manufacture", "Transfer", "Repair"} :
        \E e \in Range(allTransactions) :
            /\ e.type = t
            /\ e.signature \in LocalSignatures
            /\ calls[e.id].pc = "done"
            /\ calls[e.id].result = Ok

LogIndex(e) == {i \in DOMAIN allTransactions : allTransactions[i] = e}

\* C11: in every reachable state every event of every product chain occurs in the
\* GlobalLog, and two events of one chain occur in the GlobalLog in the order
\* they have in the chain.
C11_LogCoversChainsInOrder ==
    \A p \in DOMAIN productHistory :
        /\ \A i \in DOMAIN Chain(p) : LogIndex(Chain(p)[i]) # {}
        /\ \A i, j \in DOMAIN Chain(p) :
             i < j => \A a \in LogIndex(Chain(p)[i]), b \in LogIndex(Chain(p)[j]) : a < b

\* two products with chains, and an event of one lies in the GlobalLog between
\* two events of the other
C11_Witness ==
    \E p, q \in DOMAIN productHistory :
        /\ p # q
        /\ Len(Chain(p)) >= 2
        /\ \E a \in LogIndex(Chain(p)[1]), b \in LogIndex(Chain(q)[1]),
              d \in LogIndex(Chain(p)[2]) : a < b /\ b < d

\* the step in which call c is invoked as the query op
QueryStep(c, op) == calls[c].pc = "idle" /\ calls'[c].op = op

Min(a, b) == IF a < b THEN a ELSE b

\* the last m entries of the GlobalLog
LastEntries(m) ==
    {allTransactions[i] : i \in (Len(allTransactions) - m + 1)..Len(allTransactions)}

\* C12: for every limit n >= 0 that is passed, getRecent(n) returns exactly
\* min(n, total_events) entries, and they are the last min(n, total_events)
\* entries of the GlobalLog.
C12_RecentReturnsLastN ==
    [][\A c \in CallIds :
          (QueryStep(c, "getRecentTransactions") /\ calls'[c].args # <<>>)
          => LET n == calls'[c].args[1]
                 m == Min(n, Len(allTransactions))
             IN  /\ Len(calls'[c].response) = m
                 /\ Range(calls'[c].response) = LastEntries(m)]_vars

\* C13: the entries getRecent returns are in non-increasing timestamp order and
\* in reverse insertion order; the GlobalLog itself is in non-decreasing
\* timestamp order.
C13_RecentNewestFirst ==
    [][/\ \A i, j \in DOMAIN allTransactions' :
            i < j => allTransactions'[i].timestamp <= allTransactions'[j].timestamp
       /\ \A c \in CallIds :
            QueryStep(c, "getRecentTransactions")
            => \A i, j \in DOMAIN calls'[c].response :
                 i < j => /\ calls'[c].response[i].timestamp
                               >= calls'[c].response[j].timestamp
                          /\ \A a \in LogIndex(calls'[c].response[i]),
                                b \in LogIndex(calls'[c].response[j]) : a > b]_vars

\* getRecent has returned two events of different timestamps, appended by
\* mutations that overlapped
C13_Witness ==
    \E c \in CallIds :
        /\ calls[c].pc = "done"
        /\ calls[c].op = "getRecentTransactions"
        /\ Len(calls[c].response) = 2
        /\ calls[c].response[1].timestamp > calls[c].response[2].timestamp
        /\ calls[c].response[1].id < calls[c].response[2].id

\* a filter key counts as provided when it is not undefined
Provided(x) == x.t # "undefined"

\* the events the filters of C14 select
Matches(tx, filters) ==
    /\ Provided(filters.owner)
       => Includes(ToLowerCase(tx.owner), ToLowerCase(filters.owner.s))
    /\ Provided(filters.previousOwner)
       => /\ "previousOwner" \in DOMAIN tx
          /\ Includes(ToLowerCase(tx.previousOwner), ToLowerCase(filters.previousOwner.s))
    /\ Provided(filters.startTime)
       => GreaterOrEqual(tx.timestamp, ParseInt(filters.startTime))
    /\ Provided(filters.endTime)
       => LessOrEqual(tx.timestamp, ParseInt(filters.endTime))

\* C14: queryAll(filters) returns exactly the GlobalLog events that satisfy every
\* filter key provided, each applied for every provided value (0 and the empty
\* string included).
C14_QueryAllFiltersAnded ==
    [][\A c \in CallIds :
          QueryStep(c, "getAllTransactions")
          => /\ Len(calls'[c].response) = Cardinality(Range(calls'[c].response))
             /\ Range(calls'[c].response) =
                    {tx \in Range(allTransactions) : Matches(tx, calls'[c].args[1])}]_vars

\* C15: the result of queryAll is sorted by timestamp descending, and returned
\* events of equal timestamps are in their GlobalLog insertion order.
C15_QueryAllSortedStable ==
    [][\A c \in CallIds :
          QueryStep(c, "getAllTransactions")
          => \A i, j \in DOMAIN calls'[c].response :
               i < j => LET a == calls'[c].response[i]
                            b == calls'[c].response[j]
                        IN  /\ a.timestamp >= b.timestamp
                            /\ a.timestamp = b.timestamp
                               => \A x \in LogIndex(a), y \in LogIndex(b) : x < y]_vars

\* queryAll has returned two events of one timestamp in insertion order
C15_Witness ==
    \E c \in CallIds :
        /\ calls[c].pc = "done"
        /\ calls[c].op = "getAllTransactions"
        /\ Len(calls[c].response) = 2
        /\ calls[c].response[1].timestamp = calls[c].response[2].timestamp
        /\ calls[c].response = allTransactions

\* the buffer read as a big-endian unsigned integer
RECURSIVE BigEndian(_)
BigEndian(bytes) ==
    IF bytes = <<>> THEN 0
    ELSE 256 * BigEndian(SubSeq(bytes, 1, Len(bytes) - 1)) + bytes[Len(bytes)]

\* the number of leading zero bytes
RECURSIVE LeadingZeros(_)
LeadingZeros(bytes) ==
    IF bytes # <<>> /\ bytes[1] = 0 THEN 1 + LeadingZeros(Tail(bytes)) ELSE 0

\* the base-58 digits of n, most significant first; none for 0
RECURSIVE Base58Digits(_)
Base58Digits(n) ==
    IF n = 0 THEN <<>> ELSE Append(Base58Digits(n \div 58), ALPHABET[(n % 58) + 1])

\* what C16 says encodeBase58 returns
Base58Expected(bytes) ==
    [i \in 1..LeadingZeros(bytes) |-> "1"] \o Base58Digits(BigEndian(bytes))

\* C16: for every byte buffer encodeBase58 returns one '1' per leading zero byte
\* followed by the base-58 digits of the buffer read as a big-endian unsigned
\* integer; an all-zero buffer of length N yields exactly N '1' symbols.
C16_Base58Encoding ==
    [][\A c \in CallIds :
          QueryStep(c, "encodeBase58")
          => /\ calls'[c].result = Ok
             /\ calls'[c].response = Base58Expected(calls'[c].args[1])]_vars

Mutations == {"createProduct", "transferOwnership", "recordRepair"}

Queries == {"getProductHistory", "getRecentTransactions", "getAllTransactions"}

\* C17: a mutation call settles, with its result or with a domain error, only
\* after its mint has returned: the mint comes before the checks of the store
\* and is called once in every invocation.
C17_MintBeforeChecks ==
    [][\A c \in CallIds :
          (/\ calls[c].pc # "done"
           /\ calls'[c].pc = "done"
           /\ calls'[c].op \in Mutations)
          => calls[c].pc = "minted"]_vars

\* the events call c appended, in the GlobalLog or in any history array
EventsOf(c) ==
    {e \in Range(allTransactions) : e.id = c}
        \cup UNION {{e \in Range(arrays[a]) : e.id = c} : a \in DOMAIN arrays}

\* C18: the step that appends an event is taken by a call whose mint has
\* returned, and the event carries the signature that mint returned; a call
\* whose mint has not returned has appended nothing.
C18_SignatureBeforeAppend ==
    [][/\ allTransactions' # allTransactions
          => LET e == Last(allTransactions')
             IN  /\ calls[e.id].pc = "minted"
                 /\ calls[e.id].signature \in AnchorSignatures \cup LocalSignatures
                 /\ e.signature = calls[e.id].signature
                 /\ \A a \in DOMAIN arrays' :
                      \A x \in Range(arrays'[a]) : x \in Range(allTransactions')
       /\ \A c \in CallIds :
            calls'[c].pc \in {"idle", "getLatestBlockhash", "sendRawTransaction"}
            => EventsOf(c)' = {}]_vars

\* one event with a signature of the external ledger, one with a locally derived
\* signature, and a call that is suspended in its mint
C18_Witness ==
    /\ \E e \in Range(allTransactions) : e.signature \in AnchorSignatures
    /\ \E e \in Range(allTransactions) : e.signature \in LocalSignatures
    /\ \E c \in CallIds : AwaitingLedger(c)

\* the product a call is about
ProductOf(call) == IF call.op = "getProductHistory" THEN call.args[1] ELSE call.productId

\* C19: a step of a call about product p leaves the chain of every other product
\* as it was, and a call that settles with an error leaves every chain and the
\* GlobalLog as they were.
C19_Frame ==
    [][\A c \in CallIds :
          calls'[c] # calls[c]
          => /\ \A q \in Products :
                  q # ProductOf(calls'[c])
                  => /\ Has(q) <=> q \in DOMAIN productHistory'
                     /\ Has(q) => Chain(q)' = Chain(q)
             /\ (calls'[c].pc = "done" /\ calls'[c].result \in Errors)
                => UNCHANGED <<productHistory, arrays, allTransactions>>]_vars

\* a rejected transfer on one product and a product created next to it
C19_Witness ==
    \E c, d \in CallIds :
        /\ calls[c].pc = "done"
        /\ calls[c].result = OwnershipMismatch
        /\ calls[d].pc = "done"
        /\ calls[d].op = "createProduct"
        /\ calls[d].result = Ok
        /\ calls[d].productId # calls[c].productId
        /\ c < d
        /\ Has(calls[c].productId)
        /\ Len(Chain(calls[c].productId)) = 1

\* C20: the step of a getHistory, getRecent or queryAll call changes neither the
\* GlobalLog nor a product chain.
C20_QueriesReadOnly ==
    [][\A c \in CallIds :
          (calls[c].pc = "idle" /\ calls'[c].op \in Queries)
          => UNCHANGED <<productHistory, arrays, allTransactions>>]_vars

\* getRecent has returned the two entries of the GlobalLog newest first, and the
\* GlobalLog is still in insertion order
C20_Witness ==
    \E c \in CallIds :
        /\ calls[c].pc = "done"
        /\ calls[c].op = "getRecentTransactions"
        /\ Len(allTransactions) = 2
        /\ allTransactions[1].id < allTransactions[2].id
        /\ calls[c].response = Reverse(allTransactions)

====
